---- MODULE Spec2Model ----
(***************************************************************************)
(* QSslDiffieHellmanParameters: the shared value class, its two decoders   *)
(* (OpenSSL backend and dummy backend) and the isSafeDH validator.         *)
(*                                                                         *)
(* Big integers are represented by what the code observes of them through  *)
(* the OpenSSL wrappers: the bit length of p (q_BN_num_bits), p mod 24     *)
(* (q_BN_mod_word), the value of g (q_BN_is_word) and the answer that      *)
(* q_DH_check gives for the pair.  The answer of q_DH_check is a field of  *)
(* the parsed pair, ranging over every return value and every status       *)
(* mask, because the check is a library function of (p, g).                *)
(***************************************************************************)
EXTENDS Integers, Sequences, FiniteSets, TLC

\* ---- bounds ----
\* number of QSslDiffieHellmanParameters handles (and so of private objects)
MaxHandles == 2
\* number of bytes that may trail or precede an encoded structure
MaxJunk == 1

\* ---- program constants ----
DH_CHECK_P_NOT_PRIME == 1
DH_CHECK_P_NOT_SAFE_PRIME == 2
DH_UNABLE_TO_CHECK_GENERATOR == 4
DH_NOT_SUITABLE_GENERATOR == 8
DH_GENERATOR_2 == 2

\* QSslDiffieHellmanParameters::Error
NoError == "NoError"
InvalidInputDataError == "InvalidInputDataError"
UnsafeParametersError == "UnsafeParametersError"
Error == {NoError, InvalidInputDataError, UnsafeParametersError}

\* QSsl::EncodingFormat
Der == "Der"
Pem == "Pem"
EncodingFormat == {Der, Pem}

\* ---- C bit operations on the int status mask ----
RECURSIVE BitAnd(_, _)
BitAnd(a, b) ==
    IF a = 0 \/ b = 0 THEN 0
    ELSE (IF a % 2 = 1 /\ b % 2 = 1 THEN 1 ELSE 0) + 2 * BitAnd(a \div 2, b \div 2)

RECURSIVE BitOr(_, _)
BitOr(a, b) ==
    IF a = 0 THEN b
    ELSE IF b = 0 THEN a
    ELSE (IF a % 2 = 1 \/ b % 2 = 1 THEN 1 ELSE 0) + 2 * BitOr(a \div 2, b \div 2)

\* a & ~b
RECURSIVE BitAndNot(_, _)
BitAndNot(a, b) ==
    IF a = 0 THEN 0
    ELSE (IF a % 2 = 1 /\ b % 2 = 0 THEN 1 ELSE 0) + 2 * BitAndNot(a \div 2, b \div 2)

\* ---- the parsed pair of d2i_DHparams ----
\* bit lengths of p around the 1024-bit floor
PBits == {512, 1023, 1024, 1025}
\* residues of p modulo 24: the two the code names and two it does not
PResidues == {1, 7, 11, 23}
\* generator values: 2 and two others
GValues == {2, 3, 5}
\* return values of DH_check: 1 is success
CheckRets == {-1, 0, 1}
\* every status mask over the four DH_check flags
CheckStatuses == 0 .. 15

DHs ==
    [p : [bits : PBits, mod24 : PResidues],
     g : GValues,
     check : [ret : CheckRets, status : CheckStatuses]]

q_BN_num_bits(p) == p.bits
q_BN_mod_word(p, w) == IF w = 24 THEN p.mod24 ELSE 0
q_BN_is_word(g, w) == g = w
q_DH_check(dh) == dh.check

\* ---- variants of isSafeDH that differ from the code in one place ----
isSafeDH_variant(dh, floor, needRet, residues, anyG) ==
    LET bad == BitOr(BitOr(DH_CHECK_P_NOT_PRIME, DH_CHECK_P_NOT_SAFE_PRIME),
                     DH_NOT_SUITABLE_GENERATOR)
    IN  IF q_BN_num_bits(dh.p) < floor
        THEN [safe |-> FALSE, checked |-> FALSE, status |-> 0]
        ELSE LET chk == q_DH_check(dh) IN
             IF needRet /\ chk.ret # 1
             THEN [safe |-> FALSE, checked |-> TRUE, status |-> chk.status]
             ELSE LET residue == q_BN_mod_word(dh.p, 24)
                      status ==
                          IF (anyG \/ q_BN_is_word(dh.g, DH_GENERATOR_2))
                             /\ residue \in residues
                          THEN BitAndNot(chk.status, DH_NOT_SUITABLE_GENERATOR)
                          ELSE chk.status
                  IN  [safe |-> BitAnd(status, bad) = 0,
                       checked |-> TRUE,
                       status |-> status]

\* the return value of DH_check is not looked at
isSafeDH_ignoreRet(dh) == isSafeDH_variant(dh, 1024, FALSE, {11, 23}, FALSE)
\* the flag is cleared for residue 23 only
isSafeDH_only23(dh) == isSafeDH_variant(dh, 1024, TRUE, {23}, FALSE)
\* the flag is cleared for residue 11 only
isSafeDH_only11(dh) == isSafeDH_variant(dh, 1024, TRUE, {11}, FALSE)
\* <= 1024 instead of < 1024
isSafeDH_floorOff(dh) == isSafeDH_variant(dh, 1025, TRUE, {11, 23}, FALSE)
\* the residue exception without the test for generator 2
isSafeDH_anyG(dh) == isSafeDH_variant(dh, 1024, TRUE, {11, 23}, TRUE)

\* ---- isSafeDH ----
\* The result records, besides the verdict, whether DH_check was called and
\* the status mask the verdict was computed from.
isSafeDH(dh) ==
    LET bad == BitOr(BitOr(DH_CHECK_P_NOT_PRIME, DH_CHECK_P_NOT_SAFE_PRIME),
                     DH_NOT_SUITABLE_GENERATOR)
    IN  IF q_BN_num_bits(dh.p) < 1024
        THEN [safe |-> FALSE, checked |-> FALSE, status |-> 0]
        ELSE LET chk == q_DH_check(dh) IN
             IF chk.ret # 1
             THEN [safe |-> FALSE, checked |-> TRUE, status |-> chk.status]
             ELSE LET residue == q_BN_mod_word(dh.p, 24)
                      status ==
                          IF q_BN_is_word(dh.g, DH_GENERATOR_2)
                             /\ (residue = 11 \/ residue = 23)
                          THEN BitAndNot(chk.status, DH_NOT_SUITABLE_GENERATOR)
                          ELSE chk.status
                  IN  [safe |-> BitAnd(status, bad) = 0,
                       checked |-> TRUE,
                       status |-> status]

\* ---- byte arrays and the wire formats ----
\* A QByteArray is a sequence of units.  A unit is either the DER encoding
\* of one SEQUENCE { p INTEGER, g INTEGER } (kind "asn1"), a byte that
\* belongs to no structure (kind "junk") or a PEM armor line (kind "begin",
\* "end").  Inside the armor the payload is base64 text, which is the same
\* unit with b64 = TRUE: a base64 unit is not DER and DER is not base64.
NullDH == [p |-> [bits |-> 0, mod24 |-> 0], g |-> 0,
           check |-> [ret |-> 0, status |-> 0]]

Asn1(dh) == [kind |-> "asn1", b64 |-> FALSE, dh |-> dh]
Junk == [kind |-> "junk", b64 |-> FALSE, dh |-> NullDH]
PemBegin == [kind |-> "begin", b64 |-> FALSE, dh |-> NullDH]
PemEnd == [kind |-> "end", b64 |-> FALSE, dh |-> NullDH]

\* n junk bytes
JunkBytes(n) == [i \in 1 .. n |-> Junk]

toBase64(bytes) == [i \in 1 .. Len(bytes) |-> [bytes[i] EXCEPT !.b64 = TRUE]]
fromBase64(text) == [i \in 1 .. Len(text) |-> [text[i] EXCEPT !.b64 = FALSE]]

\* d2i_DHparams parses one structure at the start of the buffer and does not
\* look at what follows it; NullDH stands for the NULL result.
q_d2i_DHparams(der) ==
    IF Len(der) >= 1 /\ der[1].kind = "asn1" /\ ~der[1].b64
    THEN der[1].dh
    ELSE NullDH

\* i2d_DHparams writes the canonical encoding of the pair; len is its return
\* value, which is not positive when the encoder fails (encOk = FALSE).
q_i2d_DHparams(dh, encOk) ==
    IF encOk
    THEN [len |-> 1, buf |-> <<Asn1(dh)>>]
    ELSE [len |-> -1, buf |-> <<>>]

\* PEM_read_bio_DHparams: skips to the first BEGIN line, takes the base64
\* text up to the END line that follows, decodes it and parses the result.
q_PEM_read_bio_DHparams(pem) ==
    LET begins == {i \in 1 .. Len(pem) : pem[i].kind = "begin" /\ ~pem[i].b64} IN
    IF begins = {} THEN NullDH
    ELSE LET b == CHOOSE i \in begins : \A j \in begins : i <= j
             ends == {i \in b + 1 .. Len(pem) : pem[i].kind = "end" /\ ~pem[i].b64}
         IN  IF ends = {} THEN NullDH
             ELSE LET e == CHOOSE i \in ends : \A j \in ends : i <= j
                      body == SubSeq(pem, b + 1, e - 1)
                  IN  IF \A i \in 1 .. Len(body) : body[i].b64
                      THEN q_d2i_DHparams(fromBase64(body))
                      ELSE NullDH

\* ---- QSslDiffieHellmanParametersPrivate ----
\* The constructor leaves derData null (the empty sequence) and sets error.
NewPrivate == [error |-> NoError, derData |-> <<>>]

\* Record of one call of isSafeDH made by a decoder, for observation.
NoSafetyCall == [called |-> FALSE, dh |-> NullDH, safe |-> FALSE,
                 checked |-> FALSE, status |-> 0]
SafetyCall(dh) ==
    LET r == isSafeDH(dh) IN
    [called |-> TRUE, dh |-> dh, safe |-> r.safe,
     checked |-> r.checked, status |-> r.status]

\* ---- variants of the decoders that differ from the code in one place ----
\* an unsafe pair is reported as invalid input
decodeDer_unsafeAsInvalid(priv, der) ==
    IF der = <<>>
    THEN [priv |-> [priv EXCEPT !.error = InvalidInputDataError],
          safety |-> NoSafetyCall]
    ELSE LET dh == q_d2i_DHparams(der) IN
         IF dh # NullDH
         THEN IF isSafeDH(dh).safe
              THEN [priv |-> [priv EXCEPT !.derData = der],
                    safety |-> SafetyCall(dh)]
              ELSE [priv |-> [priv EXCEPT !.error = InvalidInputDataError],
                    safety |-> SafetyCall(dh)]
         ELSE [priv |-> [priv EXCEPT !.error = InvalidInputDataError],
               safety |-> NoSafetyCall]

\* the DER decoder stores the input before the pair is validated
decodeDer_storeFirst(priv, der) ==
    IF der = <<>>
    THEN [priv |-> [priv EXCEPT !.error = InvalidInputDataError],
          safety |-> NoSafetyCall]
    ELSE LET dh == q_d2i_DHparams(der) IN
         IF dh # NullDH
         THEN IF isSafeDH(dh).safe
              THEN [priv |-> [priv EXCEPT !.derData = der],
                    safety |-> SafetyCall(dh)]
              ELSE [priv |-> [priv EXCEPT !.derData = der,
                                          !.error = UnsafeParametersError],
                    safety |-> SafetyCall(dh)]
         ELSE [priv |-> [priv EXCEPT !.error = InvalidInputDataError],
               safety |-> NoSafetyCall]

\* the DER decoder stores what follows the parsed structure (the position
\* d2i_DHparams leaves the data pointer at) instead of the whole input
decodeDer_storeRest(priv, der) ==
    IF der = <<>>
    THEN [priv |-> [priv EXCEPT !.error = InvalidInputDataError],
          safety |-> NoSafetyCall]
    ELSE LET dh == q_d2i_DHparams(der) IN
         IF dh # NullDH
         THEN IF isSafeDH(dh).safe
              THEN [priv |-> [priv EXCEPT !.derData = Tail(der)],
                    safety |-> SafetyCall(dh)]
              ELSE [priv |-> [priv EXCEPT !.error = UnsafeParametersError],
                    safety |-> SafetyCall(dh)]
         ELSE [priv |-> [priv EXCEPT !.error = InvalidInputDataError],
               safety |-> NoSafetyCall]

\* the PEM decoder keeps its input instead of the re-encoding, and keeps it
\* also when the pair is unsafe
decodePem_keepInput(priv, pem, supportsSsl, bioOk, encOk) ==
    IF pem = <<>> \/ ~supportsSsl \/ ~bioOk
    THEN [priv |-> [priv EXCEPT !.error = InvalidInputDataError],
          safety |-> NoSafetyCall]
    ELSE LET dh == q_PEM_read_bio_DHparams(pem) IN
         IF dh # NullDH
         THEN IF isSafeDH(dh).safe
              THEN LET enc == q_i2d_DHparams(dh, encOk) IN
                   IF enc.len > 0
                   THEN [priv |-> [priv EXCEPT !.derData = pem],
                         safety |-> SafetyCall(dh)]
                   ELSE [priv |-> [priv EXCEPT !.error = InvalidInputDataError],
                         safety |-> SafetyCall(dh)]
              ELSE [priv |-> [priv EXCEPT !.error = UnsafeParametersError,
                                          !.derData = pem],
                    safety |-> SafetyCall(dh)]
         ELSE [priv |-> [priv EXCEPT !.error = InvalidInputDataError],
               safety |-> NoSafetyCall]

\* A decoder maps the freshly constructed private object to the object it
\* leaves behind; "safety" is the isSafeDH call it made, if any.
decodeDer_openssl(priv, der) ==
    IF der = <<>>
    THEN [priv |-> [priv EXCEPT !.error = InvalidInputDataError],
          safety |-> NoSafetyCall]
    ELSE LET dh == q_d2i_DHparams(der) IN
         IF dh # NullDH
         THEN IF isSafeDH(dh).safe
              THEN [priv |-> [priv EXCEPT !.derData = der],
                    safety |-> SafetyCall(dh)]
              ELSE [priv |-> [priv EXCEPT !.error = UnsafeParametersError],
                    safety |-> SafetyCall(dh)]
         ELSE [priv |-> [priv EXCEPT !.error = InvalidInputDataError],
               safety |-> NoSafetyCall]

decodePem_openssl(priv, pem, supportsSsl, bioOk, encOk) ==
    IF pem = <<>>
    THEN [priv |-> [priv EXCEPT !.error = InvalidInputDataError],
          safety |-> NoSafetyCall]
    ELSE IF ~supportsSsl
    THEN [priv |-> [priv EXCEPT !.error = InvalidInputDataError],
          safety |-> NoSafetyCall]
    ELSE IF ~bioOk
    THEN [priv |-> [priv EXCEPT !.error = InvalidInputDataError],
          safety |-> NoSafetyCall]
    ELSE LET dh == q_PEM_read_bio_DHparams(pem) IN
         IF dh # NullDH
         THEN IF isSafeDH(dh).safe
              THEN LET enc == q_i2d_DHparams(dh, encOk) IN
                   IF enc.len > 0
                   THEN [priv |-> [priv EXCEPT !.derData = SubSeq(enc.buf, 1, enc.len)],
                         safety |-> SafetyCall(dh)]
                   ELSE [priv |-> [priv EXCEPT !.error = InvalidInputDataError],
                         safety |-> SafetyCall(dh)]
              ELSE [priv |-> [priv EXCEPT !.error = UnsafeParametersError],
                    safety |-> SafetyCall(dh)]
         ELSE [priv |-> [priv EXCEPT !.error = InvalidInputDataError],
               safety |-> NoSafetyCall]

\* The dummy backend only prints a warning.
decodeDer_dummy(priv, der) == [priv |-> priv, safety |-> NoSafetyCall]
decodePem_dummy(priv, pem) == [priv |-> priv, safety |-> NoSafetyCall]

\* ---- inputs ----
\* The 1024-bit MODP group embedded in defaultParameters(): g = 2 and
\* p mod 24 = 23, which DH_check reports as DH_NOT_SUITABLE_GENERATOR.
OakleyGroup2 ==
    [p |-> [bits |-> 1024, mod24 |-> 23], g |-> 2,
     check |-> [ret |-> 1, status |-> DH_NOT_SUITABLE_GENERATOR]]
DefaultDer == <<Asn1(OakleyGroup2)>>

\* a safe pair with generator 5, a pair below the floor, a composite p
SafeGroup5 ==
    [p |-> [bits |-> 1025, mod24 |-> 7], g |-> 5,
     check |-> [ret |-> 1, status |-> 0]]
ShortGroup ==
    [p |-> [bits |-> 512, mod24 |-> 23], g |-> 2,
     check |-> [ret |-> 1, status |-> 0]]
CompositeGroup ==
    [p |-> [bits |-> 1024, mod24 |-> 1], g |-> 2,
     check |-> [ret |-> 1, status |-> DH_CHECK_P_NOT_PRIME]]

PemOf(der) == <<PemBegin>> \o toBase64(der) \o <<PemEnd>>

\* every DER-side input: empty, junk, each pair followed by 0..MaxJunk bytes,
\* and PEM text handed to the DER decoder
AllDerInputs ==
    {JunkBytes(n) : n \in 0 .. MaxJunk}
    \cup {<<Asn1(dh)>> \o JunkBytes(n) : dh \in DHs, n \in 0 .. MaxJunk}
    \cup {PemOf(DefaultDer)}

\* every PEM-side input: empty, junk, an armored pair whose payload is
\* followed by 0..MaxJunk bytes, text before the BEGIN line, a block that is
\* never closed, a payload that is not base64, and DER handed to the PEM decoder
AllPemInputs ==
    {JunkBytes(n) : n \in 0 .. MaxJunk}
    \cup {JunkBytes(m) \o PemOf(<<Asn1(dh)>> \o JunkBytes(n)) :
             dh \in DHs, m \in 0 .. 1, n \in 0 .. MaxJunk}
    \cup {<<PemBegin>> \o toBase64(DefaultDer)}
    \cup {<<PemBegin>> \o DefaultDer \o <<PemEnd>>}
    \cup {PemOf(JunkBytes(1)), DefaultDer}

\* the inputs the value life cycle is explored with
SampleDerInputs ==
    {<<>>, <<Junk>>, DefaultDer, <<Asn1(SafeGroup5), Junk>>,
     <<Asn1(ShortGroup)>>, <<Asn1(CompositeGroup)>>}
SamplePemInputs ==
    {<<>>, <<Junk>>, PemOf(DefaultDer), PemOf(<<Asn1(SafeGroup5), Junk>>),
     PemOf(<<Asn1(ShortGroup)>>)}

SampleInputs(encoding) == IF encoding = Der THEN SampleDerInputs ELSE SamplePemInputs
AllInputs(encoding) == IF encoding = Der THEN AllDerInputs ELSE AllPemInputs

\* what the environment decides during one decode: whether BIO_new_mem_buf
\* and i2d_DHparams succeed
Envs == [bioOk : BOOLEAN, encOk : BOOLEAN]

\* decodeDer creates no BIO and encodes nothing, so only a PEM decode has
\* these choices
EnvsOf(encoding) ==
    IF encoding = Der THEN {[bioOk |-> TRUE, encOk |-> TRUE]} ELSE Envs

\* a QIODevice pointer: null, or a device with the bytes readAll() returns
NullDevice == [null |-> TRUE, data |-> <<>>]
Device(bytes) == [null |-> FALSE, data |-> bytes]
readAll(device) == device.data

\* ---- state ----
VARIABLES
    backend,      \* which decoder file is compiled in: "openssl" or "dummy"
    supportsSsl,  \* QSslSocket::supportsSsl()
    heap,         \* the private objects: reference count, error, derData
    d,            \* the d pointer of each handle, 0 when the handle does not exist
    last          \* the most recent operation and what it was called with

vars == <<backend, supportsSsl, heap, d, last>>

Handles == 1 .. MaxHandles
Slots == 1 .. MaxHandles

FreeSlot == [ref |-> 0, error |-> NoError, derData |-> <<>>]

NoOp ==
    [op |-> "none", h |-> 0, other |-> 0, encoding |-> Der, encoded |-> <<>>,
     nullDevice |-> FALSE, env |-> [bioOk |-> TRUE, encOk |-> TRUE],
     decoderCalls |-> 0, safety |-> NoSafetyCall, origin |-> Der]

Init ==
    /\ backend \in {"openssl", "dummy"}
    /\ supportsSsl \in BOOLEAN
    /\ heap = [s \in Slots |-> FreeSlot]
    /\ d = [h \in Handles |-> 0]
    /\ last = NoOp

\* ---- the constructors' bodies ----
Decode(priv, encoded, encoding, env) ==
    LET r == IF backend = "openssl"
             THEN IF encoding = Der
                  THEN decodeDer_openssl(priv, encoded)
                  ELSE decodePem_openssl(priv, encoded, supportsSsl, env.bioOk, env.encOk)
             ELSE IF encoding = Der
                  THEN decodeDer_dummy(priv, encoded)
                  ELSE decodePem_dummy(priv, encoded)
    IN  [priv |-> r.priv, safety |-> r.safety, decoderCalls |-> 1]

CtorEmpty == [priv |-> NewPrivate, safety |-> NoSafetyCall, decoderCalls |-> 0]

CtorBytes(encoded, encoding, env) == Decode(NewPrivate, encoded, encoding, env)

CtorDevice(device, encoding, env) ==
    IF device.null
    THEN [priv |-> NewPrivate, safety |-> NoSafetyCall, decoderCalls |-> 0]
    ELSE Decode(NewPrivate, readAll(device), encoding, env)

\* ---- QExplicitlySharedDataPointer ----
\* new: the lowest free slot receives the object with reference count 1
NewSlot == CHOOSE s \in Slots : heap[s].ref = 0 /\ \A t \in Slots : heap[t].ref = 0 => s <= t

Ref(hp, s) == [hp EXCEPT ![s].ref = @ + 1]
\* deref, and delete when the count reaches 0
Deref(hp, s) == IF hp[s].ref = 1 THEN [hp EXCEPT ![s] = FreeSlot]
                ELSE [hp EXCEPT ![s].ref = @ - 1]

Install(h, r, rec) ==
    /\ d[h] = 0
    /\ heap' = [heap EXCEPT ![NewSlot] =
                    [ref |-> 1, error |-> r.priv.error, derData |-> r.priv.derData]]
    /\ d' = [d EXCEPT ![h] = NewSlot]
    /\ last' = [rec EXCEPT !.h = h, !.decoderCalls = r.decoderCalls,
                           !.safety = r.safety]
    /\ UNCHANGED <<backend, supportsSsl>>

\* ---- operations ----
ConstructEmpty(h) ==
    Install(h, CtorEmpty, [NoOp EXCEPT !.op = "empty"])

ConstructFromBytes(h, encoded, encoding, env) ==
    Install(h, CtorBytes(encoded, encoding, env),
            [NoOp EXCEPT !.op = "bytes", !.encoded = encoded,
                         !.encoding = encoding, !.env = env])

ConstructFromDevice(h, device, encoding, env) ==
    Install(h, CtorDevice(device, encoding, env),
            [NoOp EXCEPT !.op = "device", !.encoded = readAll(device),
                         !.nullDevice = device.null,
                         !.encoding = encoding, !.env = env])

DefaultParameters(h) ==
    Install(h, CtorBytes(DefaultDer, Der, [bioOk |-> TRUE, encOk |-> TRUE]),
            [NoOp EXCEPT !.op = "default", !.encoded = DefaultDer])

CopyConstruct(h, other) ==
    /\ d[h] = 0
    /\ d[other] # 0
    /\ heap' = Ref(heap, d[other])
    /\ d' = [d EXCEPT ![h] = d[other]]
    /\ last' = [NoOp EXCEPT !.op = "copy", !.h = h, !.other = other]
    /\ UNCHANGED <<backend, supportsSsl>>

Destroy(h) ==
    /\ d[h] # 0
    /\ heap' = Deref(heap, d[h])
    /\ d' = [d EXCEPT ![h] = 0]
    /\ last' = [NoOp EXCEPT !.op = "destroy", !.h = h]
    /\ UNCHANGED <<backend, supportsSsl>>

\* assignment that overwrites the shared object of the left-hand side
Assign_inPlace(h, other) ==
    /\ d[h] # 0
    /\ d[other] # 0
    /\ heap' = [heap EXCEPT ![d[h]].error = heap[d[other]].error,
                            ![d[h]].derData = heap[d[other]].derData]
    /\ last' = [NoOp EXCEPT !.op = "assign", !.h = h, !.other = other]
    /\ UNCHANGED <<backend, supportsSsl, d>>

Assign(h, other) ==
    /\ d[h] # 0
    /\ d[other] # 0
    /\ IF d[other] # d[h]
       THEN /\ heap' = Deref(Ref(heap, d[other]), d[h])
            /\ d' = [d EXCEPT ![h] = d[other]]
       ELSE UNCHANGED <<heap, d>>
    /\ last' = [NoOp EXCEPT !.op = "assign", !.h = h, !.other = other]
    /\ UNCHANGED <<backend, supportsSsl>>

Swap(h, other) ==
    /\ d[h] # 0
    /\ d[other] # 0
    /\ d' = [d EXCEPT ![h] = d[other], ![other] = d[h]]
    /\ last' = [NoOp EXCEPT !.op = "swap", !.h = h, !.other = other]
    /\ UNCHANGED <<backend, supportsSsl, heap>>

MoveAssign(h, other) ==
    /\ d[h] # 0
    /\ d[other] # 0
    /\ d' = [d EXCEPT ![h] = d[other], ![other] = d[h]]
    /\ last' = [NoOp EXCEPT !.op = "move", !.h = h, !.other = other]
    /\ UNCHANGED <<backend, supportsSsl, heap>>

Next ==
    \/ \E h \in Handles : ConstructEmpty(h)
    \/ \E h \in Handles, encoding \in EncodingFormat :
          \E env \in EnvsOf(encoding), encoded \in SampleInputs(encoding) :
             ConstructFromBytes(h, encoded, encoding, env)
    \/ \E h \in Handles, encoding \in EncodingFormat :
          \E env \in EnvsOf(encoding),
             device \in {NullDevice} \cup {Device(b) : b \in SampleInputs(encoding)} :
             ConstructFromDevice(h, device, encoding, env)
    \/ \E h \in Handles : DefaultParameters(h)
    \/ \E h \in Handles, other \in Handles : CopyConstruct(h, other)
    \/ \E h \in Handles : Destroy(h)
    \/ \E h \in Handles, other \in Handles : Assign(h, other)
    \/ \E h \in Handles, other \in Handles : Swap(h, other)
    \/ \E h \in Handles, other \in Handles : MoveAssign(h, other)

Spec == Init /\ [][Next]_vars

\* Every input of the decoders, each decoded into a fresh value.
NextDecode ==
    /\ d[1] = 0
    /\ \E encoding \in EncodingFormat, env \in Envs :
          \E encoded \in AllInputs(encoding) :
             ConstructFromBytes(1, encoded, encoding, env)

SpecDecode == Init /\ [][NextDecode]_vars

\* The bytes a value stores, decoded again as DER into a second value right
\* after the value was built; origin is the format the first value came from.
Redecode(h, src) ==
    /\ last.op = "bytes" /\ last.h = src
    /\ d[src] # 0
    /\ heap[d[src]].derData # <<>>
    /\ Install(h, CtorBytes(heap[d[src]].derData, Der, last.env),
               [NoOp EXCEPT !.op = "redecode", !.other = src,
                            !.encoded = heap[d[src]].derData,
                            !.encoding = Der, !.env = last.env,
                            !.origin = last.encoding])

NextRoundTrip ==
    \/ NextDecode
    \/ Redecode(2, 1)

SpecRoundTrip == Init /\ [][NextRoundTrip]_vars

\* ---- observers ----
isEmpty(h) == heap[d[h]].derData = <<>> /\ heap[d[h]].error = NoError
isValid(h) == heap[d[h]].error = NoError
error(h) == heap[d[h]].error
\* operator== that also compares the error state
Equal_withError(lhs, rhs) ==
    /\ heap[d[lhs]].derData = heap[d[rhs]].derData
    /\ heap[d[lhs]].error = heap[d[rhs]].error
\* operator==
Equal(lhs, rhs) == heap[d[lhs]].derData = heap[d[rhs]].derData

\* seeds the hash is observed with
Seeds == {0, 1, 5}

\* the number a unit of a byte array contributes to the hash
KindCode(kind) ==
    CASE kind = "asn1" -> 1
      [] kind = "junk" -> 2
      [] kind = "begin" -> 3
      [] OTHER -> 4
UnitCode(u) ==
    (KindCode(u.kind) + 5 * (IF u.b64 THEN 1 ELSE 0)
       + 10 * (u.dh.p.bits + 7 * u.dh.p.mod24 + 11 * u.dh.g
               + 13 * (u.dh.check.ret + 1) + 17 * u.dh.check.status)) % 256

\* qHash(const QByteArray &, uint seed): h = 31 * h + byte over the bytes,
\* starting from the seed; the arithmetic is kept to 24 bits
RECURSIVE qHashBytes(_, _)
qHashBytes(bytes, seed) ==
    IF bytes = <<>> THEN seed % 16777216
    ELSE qHashBytes(Tail(bytes), (31 * (seed % 16777216) + UnitCode(Head(bytes))) % 16777216)

\* a hash of the d pointer instead of the stored bytes
qHash_ofPointer(h, seed) == (31 * (seed % 16777216) + d[h]) % 16777216
\* qHash(const QSslDiffieHellmanParameters &, uint seed)
qHash(h, seed) == qHashBytes(heap[d[h]].derData, seed)

\* ---- properties ----
\* flag f (a power of two) is set in the status mask
HasFlag(status, f) == (status \div f) % 2 = 1

\* the value the most recent constructor built, while its handle is alive
Built == heap[d[last.h]]
JustBuilt(op) == last.op = op /\ last.h # 0 /\ d[last.h] # 0
JustDecoded(encoding) ==
    JustBuilt("bytes") /\ backend = "openssl" /\ last.encoding = encoding

\* C1: isSafeDH answers safe exactly when p has at least 1024 bits, DH_check
\* returned 1, and after the generator-2 adjustment made by the code none of
\* P_NOT_PRIME, P_NOT_SAFE_PRIME, NOT_SUITABLE_GENERATOR is set; the fourth
\* flag, UNABLE_TO_CHECK_GENERATOR, has no part in the verdict.
C1_SafeIff ==
    last.safety.called =>
        LET dh == last.safety.dh
            st == dh.check.status
            cleared == dh.g = 2 /\ dh.p.mod24 \in {11, 23}
        IN  last.safety.safe <=>
               /\ dh.p.bits >= 1024
               /\ dh.check.ret = 1
               /\ ~HasFlag(st, DH_CHECK_P_NOT_PRIME)
               /\ ~HasFlag(st, DH_CHECK_P_NOT_SAFE_PRIME)
               /\ ~(HasFlag(st, DH_NOT_SUITABLE_GENERATOR) /\ ~cleared)

\* a pair found safe although DH_check could not check its generator
C1_Witness ==
    /\ last.safety.called
    /\ last.safety.safe
    /\ HasFlag(last.safety.dh.check.status, DH_UNABLE_TO_CHECK_GENERATOR)
    /\ last.safety.dh.g = 3

\* the runs of isSafeDH that reach the generator-2 adjustment with g = 2
ReachedAdjustmentG2 ==
    /\ last.safety.called
    /\ last.safety.checked
    /\ last.safety.dh.check.ret = 1
    /\ last.safety.dh.g = 2

\* C2 as stated: with g = 2 the flag is cleared exactly when p mod 24 = 23,
\* for every other residue (11 included) it keeps the value DH_check
\* computed, so g = 2, p mod 24 = 11 with the flag set is unsafe.
C2_Original ==
    ReachedAdjustmentG2 =>
        LET dh == last.safety.dh
            flagIn == HasFlag(dh.check.status, DH_NOT_SUITABLE_GENERATOR)
            flagOut == HasFlag(last.safety.status, DH_NOT_SUITABLE_GENERATOR)
        IN  /\ flagOut = (IF dh.p.mod24 = 23 THEN FALSE ELSE flagIn)
            /\ (dh.p.mod24 = 11 /\ flagIn => ~last.safety.safe)

\* C2 amended: with g = 2 the flag is cleared exactly when p mod 24 is 11 or
\* 23, for every other residue it keeps the value DH_check computed, so
\* g = 2, p mod 24 = 11 with only that flag set is safe.
C2_Amended ==
    ReachedAdjustmentG2 =>
        LET dh == last.safety.dh
            st == dh.check.status
            flagIn == HasFlag(st, DH_NOT_SUITABLE_GENERATOR)
            flagOut == HasFlag(last.safety.status, DH_NOT_SUITABLE_GENERATOR)
        IN  /\ flagOut = (IF dh.p.mod24 \in {11, 23} THEN FALSE ELSE flagIn)
            /\ (dh.p.mod24 = 11 /\ st = DH_NOT_SUITABLE_GENERATOR
                   => last.safety.safe)

\* g = 2, p mod 24 = 11, the flag set by DH_check, and the pair found safe
C2_Witness ==
    /\ ReachedAdjustmentG2
    /\ last.safety.dh.p.mod24 = 11
    /\ last.safety.dh.check.status = DH_NOT_SUITABLE_GENERATOR
    /\ last.safety.safe

\* C3: a p of fewer than 1024 bits is unsafe whatever DH_check would say and
\* DH_check is not called; a p of exactly 1024 bits for which DH_check
\* succeeds and reports none of the three flags is safe.
C3_Floor ==
    last.safety.called =>
        LET dh == last.safety.dh
            st == dh.check.status
        IN  /\ dh.p.bits < 1024 => ~last.safety.safe /\ ~last.safety.checked
            /\ dh.p.bits >= 1024 => last.safety.checked
            /\ (/\ dh.p.bits = 1024
                /\ dh.check.ret = 1
                /\ ~HasFlag(st, DH_CHECK_P_NOT_PRIME)
                /\ ~HasFlag(st, DH_CHECK_P_NOT_SAFE_PRIME)
                /\ ~HasFlag(st, DH_NOT_SUITABLE_GENERATOR)) => last.safety.safe

\* a 1023-bit p that DH_check would accept, refused without the check
C3_Witness ==
    /\ last.safety.called
    /\ last.safety.dh.p.bits = 1023
    /\ last.safety.dh.check = [ret |-> 1, status |-> 0]
    /\ ~last.safety.safe
    /\ ~last.safety.checked

\* C4: for a generator other than 2 the status the verdict is computed from
\* is the one DH_check produced, NOT_SUITABLE_GENERATOR included, whatever
\* p mod 24 is.
C4_OnlyG2 ==
    (last.safety.called /\ last.safety.checked /\ last.safety.dh.g # 2) =>
        /\ last.safety.status = last.safety.dh.check.status
        /\ HasFlag(last.safety.status, DH_NOT_SUITABLE_GENERATOR)
              = HasFlag(last.safety.dh.check.status, DH_NOT_SUITABLE_GENERATOR)

\* g = 3, p mod 24 = 23, only the generator flag set: unsafe
C4_Witness ==
    /\ last.safety.called
    /\ last.safety.dh.g = 3
    /\ last.safety.dh.p.mod24 = 23
    /\ last.safety.dh.p.bits >= 1024
    /\ last.safety.dh.check = [ret |-> 1, status |-> DH_NOT_SUITABLE_GENERATOR]
    /\ ~last.safety.safe

\* C5: decodeDer of the OpenSSL backend ends in one of four outcomes: empty
\* input, InvalidInputData and no bytes; input d2i_DHparams rejects,
\* InvalidInputData and no bytes; a pair isSafeDH refuses, UnsafeParameters
\* and no bytes; a pair isSafeDH accepts, NoError and the input bytes as
\* they were given.
C5_DerOutcomes ==
    JustDecoded(Der) =>
        LET der == last.encoded
            dh == q_d2i_DHparams(der)
        IN  IF der = <<>> \/ dh = NullDH
            THEN /\ Built.error = InvalidInputDataError
                 /\ Built.derData = <<>>
                 /\ ~last.safety.called
            ELSE /\ last.safety.called
                 /\ last.safety.dh = dh
                 /\ IF last.safety.safe
                    THEN Built.error = NoError /\ Built.derData = der
                    ELSE Built.error = UnsafeParametersError /\ Built.derData = <<>>

\* a safe pair followed by a trailing byte: the stored bytes are the input,
\* not the canonical encoding of the pair
C5_Witness ==
    /\ JustDecoded(Der)
    /\ Built.error = NoError
    /\ Len(last.encoded) = 2
    /\ Built.derData = last.encoded
    /\ Built.derData # q_i2d_DHparams(last.safety.dh, TRUE).buf

\* C6: decodePem of the OpenSSL backend gives InvalidInputData and no bytes
\* when the input is empty, when supportsSsl() is false, when no DH
\* PARAMETERS block can be read from the input, or when i2d_DHparams fails;
\* UnsafeParameters and no bytes when the block parses and isSafeDH refuses
\* the pair; otherwise NoError and the re-encoding of the pair, which is
\* never the PEM input.
C6_PemOutcomes ==
    JustDecoded(Pem) =>
        LET pem == last.encoded
            dh == q_PEM_read_bio_DHparams(pem)
        IN  IF pem = <<>> \/ ~supportsSsl \/ ~last.env.bioOk \/ dh = NullDH
            THEN /\ Built.error = InvalidInputDataError
                 /\ Built.derData = <<>>
                 /\ ~last.safety.called
            ELSE /\ last.safety.called
                 /\ last.safety.dh = dh
                 /\ IF ~last.safety.safe
                    THEN Built.error = UnsafeParametersError /\ Built.derData = <<>>
                    ELSE IF ~last.env.encOk
                    THEN Built.error = InvalidInputDataError /\ Built.derData = <<>>
                    ELSE /\ Built.error = NoError
                         /\ Built.derData = <<Asn1(dh)>>
                         /\ Built.derData # pem

\* an armored safe pair whose payload carries a trailing byte: the stored
\* bytes are neither the PEM text nor its decoded payload
C6_Witness ==
    /\ JustDecoded(Pem)
    /\ Built.error = NoError
    /\ Len(last.encoded) = 4
    /\ Built.derData = <<Asn1(last.safety.dh)>>
    /\ Built.derData # fromBase64(SubSeq(last.encoded, 2, 3))

\* C7: every live value is in exactly one of three states: empty (no bytes,
\* NoError, isEmpty and isValid), populated (bytes, NoError, not isEmpty,
\* isValid) or failed (no bytes, an error, neither isEmpty nor isValid);
\* bytes and an error never coexist.
C7_ThreeStates ==
    \A h \in Handles : d[h] # 0 =>
        LET o == heap[d[h]]
            empty == o.derData = <<>> /\ o.error = NoError
            populated == o.derData # <<>> /\ o.error = NoError
            failed == o.derData = <<>> /\ o.error # NoError
        IN  /\ heap[d[h]].ref > 0
            /\ ~(o.derData # <<>> /\ o.error # NoError)
            /\ empty \/ populated \/ failed
            /\ empty => isEmpty(h) /\ isValid(h)
            /\ populated => ~isEmpty(h) /\ isValid(h)
            /\ failed => ~isEmpty(h) /\ ~isValid(h)

\* a populated value and a failed value alive together, after a swap
C7_Witness ==
    /\ last.op = "swap"
    /\ \E h1, h2 \in Handles :
          /\ d[h1] # 0 /\ d[h2] # 0
          /\ heap[d[h1]].derData # <<>>
          /\ heap[d[h2]].error = UnsafeParametersError

\* C8: with the dummy backend every value constructed from bytes has the
\* error InvalidInputData, so isValid() and isEmpty() are both false.
C8_DummyInvalid ==
    (JustBuilt("bytes") /\ backend = "dummy") =>
        /\ Built.error = InvalidInputDataError
        /\ ~isValid(last.h)
        /\ ~isEmpty(last.h)

\* C9: defaultParameters() returns a value with NoError that isValid(); with
\* the OpenSSL backend it holds the embedded bytes, which isSafeDH accepted
\* although DH_check flagged the generator; and two calls in a row return
\* values that compare equal.
C9_Default ==
    [][(last'.op = "default" /\ d'[last'.h] # 0) =>
          LET new == heap'[d'[last'.h]] IN
          /\ new.error = NoError
          /\ backend = "openssl" =>
                /\ new.derData = DefaultDer
                /\ last'.safety.called /\ last'.safety.safe
                /\ HasFlag(last'.safety.dh.check.status, DH_NOT_SUITABLE_GENERATOR)
          /\ (JustBuilt("default") /\ d'[last.h] # 0) =>
                heap'[d'[last.h]].derData = new.derData
      ]_vars

\* two values from two calls in a row, both holding the embedded bytes
C9_Witness ==
    /\ JustBuilt("default")
    /\ backend = "openssl"
    /\ \E h1, h2 \in Handles :
          /\ h1 # h2 /\ d[h1] # 0 /\ d[h2] # 0 /\ d[h1] # d[h2]
          /\ heap[d[h1]].derData = DefaultDer
          /\ heap[d[h2]].derData = DefaultDer
          /\ isValid(h1) /\ isValid(h2)

\* C10: from a null device the result is the empty state and no decoder is
\* called; from a non-null device the result is what fromBytes gives for
\* the bytes read with the same format, so a device that yields no bytes
\* gives InvalidInputData and not the empty state.
C10_Stream ==
    JustBuilt("device") =>
        IF last.nullDevice
        THEN /\ Built.error = NoError /\ Built.derData = <<>>
             /\ last.decoderCalls = 0
        ELSE LET r == CtorBytes(last.encoded, last.encoding, last.env) IN
             /\ Built.error = r.priv.error
             /\ Built.derData = r.priv.derData
             /\ last.decoderCalls = 1
             /\ last.encoded = <<>> => Built.error = InvalidInputDataError

\* the part of C10 that holds for both backends: null device, and agreement
\* with fromBytes
C10_StreamAsBytes ==
    JustBuilt("device") =>
        IF last.nullDevice
        THEN /\ Built.error = NoError /\ Built.derData = <<>>
             /\ last.decoderCalls = 0
        ELSE LET r == CtorBytes(last.encoded, last.encoding, last.env) IN
             /\ Built.error = r.priv.error
             /\ Built.derData = r.priv.derData
             /\ last.decoderCalls = 1
             /\ (last.encoded = <<>> /\ backend = "openssl")
                    => Built.error = InvalidInputDataError

\* C11: when decodeDer accepted an input as safe, decodeDer of the bytes the
\* value stores gives NoError and a value equal to the first one.
C11_DerRoundTrip ==
    (JustBuilt("redecode") /\ last.origin = Der) =>
        /\ Built.error = NoError
        /\ Built.derData # <<>>
        /\ Equal(last.h, last.other)
        /\ heap[d[last.other]].error = NoError

\* the round trip of an input that carries a trailing byte
C11_Witness ==
    /\ JustBuilt("redecode")
    /\ last.origin = Der
    /\ Len(heap[d[last.other]].derData) = 2
    /\ Built.error = NoError
    /\ Equal(last.h, last.other)

\* C12: when decodePem accepted an input as safe, decodeDer of the stored
\* re-encoding finds the pair safe, and the value it gives equals the
\* PEM-decoded value and the value decodeDer gives for the canonical DER
\* encoding of the same pair.
C12_PemRoundTrip ==
    (JustBuilt("redecode") /\ last.origin = Pem) =>
        LET dh == last.safety.dh
            canonical == decodeDer_openssl(NewPrivate, q_i2d_DHparams(dh, TRUE).buf).priv
        IN  /\ last.safety.called /\ last.safety.safe
            /\ Built.error = NoError
            /\ Equal(last.h, last.other)
            /\ canonical.error = NoError
            /\ Built.derData = canonical.derData

\* the round trip of an armored pair whose payload carried a trailing byte
C12_Witness ==
    /\ JustBuilt("redecode")
    /\ last.origin = Pem
    /\ Built.error = NoError
    /\ Built.derData = <<Asn1(last.safety.dh)>>
    /\ Equal(last.h, last.other)
    /\ last.safety.dh.g = 5

\* C13: values that compare equal have the same hash for every seed; two
\* values built one after the other from the same DER bytes compare equal
\* and hash alike; a value built from PEM whose re-encoding is the DER input
\* an accepted value was just built from compares equal to that value.
C13_EqualHash ==
    /\ [](\A a, b \in Handles : (d[a] # 0 /\ d[b] # 0 /\ Equal(a, b)) =>
             \A seed \in Seeds : qHash(a, seed) = qHash(b, seed))
    /\ [][(last.op = "bytes" /\ last'.op = "bytes" /\ last.encoding = Der
           /\ d'[last.h] # 0 /\ d'[last'.h] # 0) =>
             \A a, b \in Handles : (a = last.h /\ b = last'.h) =>
                /\ (last'.encoding = Der /\ last.encoded = last'.encoded)
                      => Equal(a, b)'
                /\ (/\ last'.encoding = Pem
                    /\ heap[d[a]].error = NoError /\ heap[d[a]].derData # <<>>
                    /\ heap'[d'[b]].error = NoError /\ heap'[d'[b]].derData # <<>>
                    /\ q_i2d_DHparams(q_PEM_read_bio_DHparams(last'.encoded), TRUE).buf
                          = last.encoded)
                      => Equal(a, b)'
         ]_vars

\* a value built from PEM next to a separate value that holds the same bytes
\* as its re-encoding, equal and with the same hash
C13_Witness ==
    /\ JustBuilt("bytes")
    /\ last.encoding = Pem
    /\ Built.error = NoError /\ Built.derData # <<>>
    /\ \E a \in Handles :
          /\ d[a] # 0 /\ d[a] # d[last.h]
          /\ Equal(a, last.h)
          /\ \A seed \in Seeds : qHash(a, seed) = qHash(last.h, seed)

\* C14: no step changes the error or the bytes of a private object that
\* stays alive; a handle the step is not applied to keeps its object and
\* observes the same bytes, error, isEmpty, isValid and hash; copy and
\* assignment make the left handle observe what the right one did, swap and
\* move assignment exchange what the two handles observe.
C14_Frame ==
    [][/\ \A s \in Slots : (heap[s].ref > 0 /\ heap'[s].ref > 0) =>
             /\ heap'[s].error = heap[s].error
             /\ heap'[s].derData = heap[s].derData
       /\ \A h \in Handles :
             (/\ d[h] # 0 /\ d'[h] # 0
              /\ h # last'.h
              /\ ~(last'.op \in {"swap", "move"} /\ h = last'.other)) =>
                /\ d'[h] = d[h]
                /\ error(h)' = error(h)
                /\ heap'[d'[h]].derData = heap[d[h]].derData
                /\ isEmpty(h)' = isEmpty(h)
                /\ isValid(h)' = isValid(h)
                /\ \A seed \in Seeds : qHash(h, seed)' = qHash(h, seed)
       /\ \A h, o \in Handles :
             (h = last'.h /\ o = last'.other /\ last'.op \in {"copy", "assign"}) =>
                /\ error(h)' = error(o)
                /\ heap'[d'[h]].derData = heap[d[o]].derData
                /\ d'[h] = d[o]
       /\ \A h, o \in Handles :
             (h = last'.h /\ o = last'.other /\ last'.op \in {"swap", "move"}) =>
                /\ d'[h] = d[o] /\ d'[o] = d[h]
                /\ error(h)' = error(o) /\ error(o)' = error(h)
                /\ heap' = heap
      ]_vars

\* after an assignment both handles share one populated object and a slot
\* is free
C14_Witness ==
    /\ last.op = "assign"
    /\ last.h # last.other
    /\ d[last.h] = d[last.other]
    /\ heap[d[last.h]].ref = 2
    /\ heap[d[last.h]].derData # <<>>
    /\ \E s \in Slots : heap[s].ref = 0

\* C15: operator== and qHash ignore the error state: any two values that are
\* empty or failed compare equal and have the same hash for every seed,
\* whatever their errors are.
C15_ErrorIgnored ==
    \A a, b \in Handles :
        (/\ d[a] # 0 /\ d[b] # 0
         /\ isEmpty(a) \/ ~isValid(a)
         /\ isEmpty(b) \/ ~isValid(b)) =>
            /\ Equal(a, b)
            /\ \A seed \in Seeds : qHash(a, seed) = qHash(b, seed)

\* an empty value and a failed value that compare equal although isValid()
\* and error() differ
C15_Witness ==
    \E a, b \in Handles :
        /\ d[a] # 0 /\ d[b] # 0 /\ d[a] # d[b]
        /\ isEmpty(a) /\ isValid(a)
        /\ error(b) = UnsafeParametersError
        /\ Equal(a, b)
        /\ isValid(a) # isValid(b)
        /\ error(a) # error(b)
        /\ \A seed \in Seeds : qHash(a, seed) = qHash(b, seed)
====
